---- MODULE Spec2Model ----
(***************************************************************************)
(* AI Travel Assistant backend (src/main.py, src/schemas.py).              *)
(*                                                                         *)
(* The document store is shared by request handlers that run on separate   *)
(* worker threads; each handler is a sequence of single store operations.  *)
(* Spec       : the handlers of all routes, interleaved at the granularity *)
(*              of one store operation, with worker crashes.               *)
(* SpecSeq    : the same handlers, one request at a time.                  *)
(* SpecIntent : detect_intent applied to typed messages.                   *)
(* SpecBudget : budget_calc applied to trip parameters.                    *)
(*                                                                         *)
(* Text is a sequence of one-character strings so that Python's substring  *)
(* test `k in t` is computed, not assumed.  Money of the budget estimator  *)
(* is kept in thousandths so that round(x, 2) is computed.                 *)
(***************************************************************************)
EXTENDS Integers, Sequences, FiniteSets, TLC

VARIABLES
    userprofile,    \* collection "userprofile": sequence of profile documents
    chatmessage,    \* collection "chatmessage"
    rewardledger,   \* collection "rewardledger"
    premiumpass,    \* collection "premiumpass"
    vaultdocument,  \* collection "vaultdocument"
    files,          \* local disk: set of [path, content]
    now,            \* the wall clock read by now_utc()
    pc,             \* per worker: position inside the handler it runs
    req,            \* per worker: the request being served
    profile,        \* per worker: the handler's local `profile` (coins read)
    resp,           \* per worker: the response of the last finished request
    nreq,           \* number of requests accepted so far
    credited,       \* history: coins ever credited per user (welcome + rewards)
    spent,          \* history: total price of the passes issued per user
    rewardWrites,   \* history: reward balance writes applied per user
    text,           \* SpecIntent: the message typed so far
    intent,         \* SpecIntent: result of detect_intent
    inp,            \* SpecBudget: BudgetInput
    out             \* SpecBudget: BudgetOutput

store == <<userprofile, chatmessage, rewardledger, premiumpass, vaultdocument, files>>
workers == <<pc, req, profile, resp, nreq>>
history == <<credited, spent, rewardWrites>>
pure == <<text, intent, inp, out>>
vars == <<store, now, workers, history, pure>>

-----------------------------------------------------------------------------
(* Bounds of the model *)

MaxRequests == 2
MaxTime == 1
TicksPerDay == 2
MaxTextLen == 24
MaxDays == 3
MaxTravelers == 3

Users == {"u1", "u2"}
Workers == {"w1", "w2"}
None == [none |-> TRUE]

Max(a, b) == IF a >= b THEN a ELSE b
Min(a, b) == IF a <= b THEN a ELSE b

-----------------------------------------------------------------------------
(* Python string operations on sequences of characters *)

UpperToLower ==
    [c \in {"A","B","C","D","E","F","G","H","I","J","K","L","M","N","O","P","Q",
            "R","S","T","U","V","W","X","Y","Z"} |->
        CASE c = "A" -> "a" [] c = "B" -> "b" [] c = "C" -> "c" [] c = "D" -> "d"
          [] c = "E" -> "e" [] c = "F" -> "f" [] c = "G" -> "g" [] c = "H" -> "h"
          [] c = "I" -> "i" [] c = "J" -> "j" [] c = "K" -> "k" [] c = "L" -> "l"
          [] c = "M" -> "m" [] c = "N" -> "n" [] c = "O" -> "o" [] c = "P" -> "p"
          [] c = "Q" -> "q" [] c = "R" -> "r" [] c = "S" -> "s" [] c = "T" -> "t"
          [] c = "U" -> "u" [] c = "V" -> "v" [] c = "W" -> "w" [] c = "X" -> "x"
          [] c = "Y" -> "y" [] c = "Z" -> "z"]

\* str.lower()
lower(s) ==
    [i \in 1..Len(s) |-> IF s[i] \in DOMAIN UpperToLower THEN UpperToLower[s[i]] ELSE s[i]]

\* `k in t` for strings: k occurs in t as a contiguous substring
Contains(t, k) ==
    \E i \in 0..(Len(t) - Len(k)) : SubSeq(t, i + 1, i + Len(k)) = k

\* any(k in t for k in ks)
AnyIn(ks, t) == \E k \in ks : Contains(t, k)

\* str.startswith
startswith(s, prefix) ==
    Len(s) >= Len(prefix) /\ SubSeq(s, 1, Len(prefix)) = prefix

-----------------------------------------------------------------------------
(* Simple rule-based AI *)

\* keys of PROBLEM_KB
PROBLEM_KB ==
    {"budget_low", "eat_safe", "transport_best", "girls_safety", "packing",
     "cost_reduce", "confusing_plan", "hidden_places", "lost_item", "scared",
     "adventures"}

\* The ordered if-chain of detect_intent. A rule matches when every keyword of
\* `all` and at least one keyword of `any` occurs in the lowercased text.
IntentRules ==
    << [all |-> {}, label |-> "where_travel",
        any |-> {<<"w","h","e","r","e"," ","s","h","o","u","l","d"," ","i"," ","t","r","a","v","e","l">>, <<"g","o"," ","w","h","e","r","e">>, <<"d","e","s","t","i","n","a","t","i","o","n">>}],
       [all |-> {}, label |-> "budget_low",
        any |-> {<<"b","u","d","g","e","t">>, <<"l","o","w"," ","m","o","n","e","y">>, <<"c","h","e","a","p">>}],
       [all |-> {}, label |-> "eat_safe",
        any |-> {<<"e","a","t">>, <<"f","o","o","d">>, <<"r","e","s","t","a","u","r","a","n","t">>, <<"s","a","f","e"," ","t","o"," ","e","a","t">>}],
       [all |-> {}, label |-> "transport_best",
        any |-> {<<"t","r","a","n","s","p","o","r","t">>, <<"b","u","s">>, <<"t","r","a","i","n">>, <<"c","a","b">>}],
       [all |-> {<<"s","a","f","e">>}, label |-> "girls_safety",
        any |-> {<<"g","i","r","l">>, <<"w","o","m","e","n">>, <<"f","e","m","a","l","e">>}],
       [all |-> {}, label |-> "packing",
        any |-> {<<"p","a","c","k">>, <<"p","a","c","k","i","n","g">>, <<"l","u","g","g","a","g","e">>}],
       [all |-> {}, label |-> "cost_reduce",
        any |-> {<<"r","e","d","u","c","e"," ","c","o","s","t">>, <<"s","a","v","e"," ","m","o","n","e","y">>, <<"c","o","s","t"," ","d","o","w","n">>}],
       [all |-> {}, label |-> "confusing_plan",
        any |-> {<<"c","o","n","f","u","s","i","n","g">>, <<"f","i","x"," ","p","l","a","n">>, <<"i","m","p","r","o","v","e"," ","i","t","i","n","e","r","a","r","y">>}],
       [all |-> {}, label |-> "hidden_places",
        any |-> {<<"h","i","d","d","e","n">>, <<"o","f","f","b","e","a","t">>, <<"s","e","c","r","e","t">>}],
       [all |-> {}, label |-> "lost_item",
        any |-> {<<"l","o","s","t">>, <<"m","i","s","s","i","n","g">>, <<"m","i","s","p","l","a","c","e","d">>}],
       [all |-> {}, label |-> "scared",
        any |-> {<<"s","c","a","r","e","d">>, <<"u","n","s","a","f","e">>, <<"h","e","l","p"," ","m","e">>}],
       [all |-> {}, label |-> "adventures",
        any |-> {<<"a","d","v","e","n","t","u","r","e">>, <<"a","c","t","i","v","i","t","i","e","s">>}] >>

RuleMatches(rule, t) ==
    /\ \A k \in rule.all : Contains(t, k)
    /\ AnyIn(rule.any, t)

RECURSIVE FirstMatch(_, _, _)
FirstMatch(rules, i, t) ==
    IF i > Len(rules) THEN "general"
    ELSE IF RuleMatches(rules[i], t) THEN rules[i].label
    ELSE FirstMatch(rules, i + 1, t)

\* the rule order a reader of the specification would implement: budget first
detect_intent_budget_first(txt) ==
    FirstMatch(<<IntentRules[2], IntentRules[1]>> \o SubSeq(IntentRules, 3, Len(IntentRules)),
               1, lower(txt))

detect_intent(txt) ==
    FirstMatch(IntentRules, 1, lower(txt))

\* ai_reply: the canned reply is named by its key, the tips by their language
ai_reply(message, locale) ==
    LET i == detect_intent(message)
        txt == IF i = "where_travel" THEN "ask_month_budget_vibe"
               ELSE IF i \in PROBLEM_KB THEN i
               ELSE "ask_city_dates_budget"
        hi == startswith(locale, <<"h","i">>)
    IN  [reply |-> IF hi /\ i = "general" THEN "bilkul_general" ELSE txt,
         followups |-> 3,
         tips |-> IF hi THEN "tips_hi" ELSE "tips_en",
         locale |-> locale]

-----------------------------------------------------------------------------
(* Budget estimator *)

Scale == 10 * 100                \* one currency unit, in thousandths
DailyStyles == {"thrifty", "standard", "comfort"}

\* round(x, 2) of a value in thousandths: to the nearest hundredth, ties to even
round2(v) ==
    LET r == v % 10
        down == v - r
    IN  IF r < 5 THEN down
        ELSE IF r > 5 THEN down + 10
        ELSE IF (down \div 10) % 2 = 0 THEN down ELSE down + 10

base(daily_style) ==
    CASE daily_style = "thrifty" -> 18
      [] daily_style = "standard" -> 35
      [] daily_style = "comfort" -> 60

\* accom_map.get(accommodation, 15)
accom_map(accommodation) ==
    CASE accommodation = "budget" -> 15
      [] accommodation = "mid" -> 35
      [] accommodation = "premium" -> 80
      [] OTHER -> 15

\* dest_adj.get(destination_type, 1.0), in tenths
dest_adj(destination_type) ==
    CASE destination_type = "city" -> 10
      [] destination_type = "beach" -> 11
      [] destination_type = "mountains" -> 9
      [] destination_type = "rural" -> 8
      [] OTHER -> 10

daily_transport_base == 8
daily_misc == 5

\* total with the room charged per traveler
budget_total_per_traveler(per_person_daily, accom_daily, i) ==
    (per_person_daily + accom_daily) * i.travelers * i.days

\* line 259
budget_total(per_person_daily, accom_daily, i) ==
    (per_person_daily * i.travelers + accom_daily) * i.days

budget_calc(i) ==
    IF i.daily_style \notin DailyStyles THEN [ok |-> FALSE, error |-> "KeyError"]
    ELSE
    LET tenth == Scale \div 10
        daily_food == base(i.daily_style) * dest_adj(i.destination_type) * tenth
        daily_transport == daily_transport_base * dest_adj(i.destination_type) * tenth
        misc == daily_misc * Scale
        per_person_daily == daily_food + daily_transport + misc
        accom_daily == accom_map(i.accommodation) * Scale
        total == budget_total(per_person_daily, accom_daily, i)
    IN  [ok |-> TRUE,
         total_estimate |-> round2(total),
         per_day |-> round2(total \div Max(i.days, 1)),
         breakdown |-> [food |-> round2(daily_food * i.travelers * i.days),
                        transport |-> round2(daily_transport * i.travelers * i.days),
                        misc |-> round2(misc * i.travelers * i.days),
                        stay |-> round2(accom_daily * i.days)],
         suggestions |-> 3]

-----------------------------------------------------------------------------
(* Document store adapter: collections are sequences of documents in        *)
(* insertion order; every operation is one atomic store call.               *)

RECURSIVE FirstIndex(_, _, _)
FirstIndex(coll, user_id, i) ==
    IF i > Len(coll) THEN 0
    ELSE IF coll[i].user_id = user_id THEN i
    ELSE FirstIndex(coll, user_id, i + 1)

\* db[coll].find_one({"user_id": user_id})
find_one(coll, user_id) ==
    LET i == FirstIndex(coll, user_id, 1)
    IN  IF i = 0 THEN None ELSE coll[i]

\* create_document(coll, doc)
create_document(coll, doc) == Append(coll, doc)

\* get_documents(coll, {"user_id": user_id}, limit)
get_documents(coll, user_id, limit) ==
    LET hits == SelectSeq(coll, LAMBDA d : d.user_id = user_id)
    IN  SubSeq(hits, 1, Min(Len(hits), limit))

\* db[coll].update_one({"user_id": user_id}, {"$set": {"coins": coins}})
update_one(coll, user_id, coins) ==
    LET i == FirstIndex(coll, user_id, 1)
    IN  IF i = 0 THEN coll ELSE [coll EXCEPT ![i].coins = coins]

-----------------------------------------------------------------------------
(* Schemas and program constants *)

WELCOME_COINS == 10
HISTORY_LIMIT == 100

UserProfile(user_id, coins) ==
    [user_id |-> user_id, language |-> "auto", coins |-> coins]

ChatMessage(user_id, role, content) ==
    [user_id |-> user_id, role |-> role, content |-> content]

RewardLedger(r) ==
    [user_id |-> r.user_id, action |-> r.action, coins |-> r.coins]

PremiumPass(user_id, feature, expires_at) ==
    [user_id |-> user_id, feature |-> feature, expires_at |-> expires_at]

VaultDocument(user_id, filename, filetype, size, storage_path) ==
    [user_id |-> user_id, filename |-> filename, filetype |-> filetype,
     size |-> size, storage_path |-> storage_path]

\* timedelta(days=days), in clock ticks
timedelta(days) == days * TicksPerDay

Durations == {"1d", "7d", "30d"}

\* the price table keyed by the validity instead of the cost
costs_by_days(duration) ==
    CASE duration = "1d" -> 1
      [] duration = "7d" -> 7
      [] duration = "30d" -> 30

\* costs = {"1d": 10, "7d": 50, "30d": 150}
costs(duration) ==
    CASE duration = "1d" -> 10
      [] duration = "7d" -> 50
      [] duration = "30d" -> 150

\* every pass valid for the shortest period
days_always_one(duration) == 1

\* days = {"1d": 1, "7d": 7, "30d": 30}
days(duration) ==
    CASE duration = "1d" -> 1
      [] duration = "7d" -> 7
      [] duration = "30d" -> 30

\* credit without the floor at zero
new_balance_unclamped(coins_read, coins) == coins_read + coins

\* new_balance = profile.get("coins", 0) + max(0, req.coins)
new_balance(coins_read, coins) == coins_read + Max(0, coins)

\* the debit taken from the balance stored now, as {"$inc": {"coins": -price}} would
debit_stored_balance(bal, stored, price) == stored - price

\* line 331: {"$set": {"coins": bal - price}}, bal being the balance read at line 327
debited_balance(bal, stored, price) == bal - price

\* a lookup that never finds the profile
ensure_user_hit_never(existing) == FALSE

\* `if existing:` in ensure_user
ensure_user_hit(existing) == existing # None

\* audit entry written before the balance
reward_order_audit_first == <<"audit", "balance">>

\* the order of the two writes of reward: update_one, then create_document
reward_order == <<"balance", "audit">>

\* the image note's keyword test on the lowercased file name
looks_like_document(filename) ==
    AnyIn({<<"t","i","c","k","e","t">>, <<"v","i","s","a">>, <<"p","a","s","s">>, <<"b","o","a","r","d","i","n","g">>}, lower(filename))

VOICE_TRANSCRIPT ==
    <<"V","o","i","c","e"," ","r","e","c","e","i","v","e","d","."," ","F","o","r"," ","n","o","w"," ","I"," ","c","o","n","v","e","r","t","e","d"," ","i","t"," ","t","o",":"," ","'","H","e","l","p"," ","m","e"," ","p","l","a","n"," ","c","h","e","a","p"," ","l","o","c","a","l"," ","t","r","a","n","s","p","o","r","t",".","'">>

-----------------------------------------------------------------------------
(* Inputs *)

RewardAmounts == {-20, 0, 10, 140}
RedeemDurations == Durations \cup {"2d"}
Features == {"maps"}
ChatInputs ==
    { [message |-> <<"c","h","e","a","p"," ","B","u","d","g","e","t"," ","d","e","s","t","i","n","a","t","i","o","n">>, locale |-> <<"e","n">>],
      [message |-> <<"h","e","l","l","o">>, locale |-> <<"h","i">>] }
FileNames == { <<"T","i","c","k","e","t",".","p","n","g">>, <<"b","e","a","c","h",".","j","p","g">> }
Payloads == { <<7, 7>> }
BudgetSample ==
    { [days |-> 2, travelers |-> 2, destination_type |-> "beach",
       accommodation |-> "mid", daily_style |-> "standard"] }

-----------------------------------------------------------------------------
(* Initial state: empty store, idle workers *)

NoRequest == [kind |-> "none"]
NoResponse == [ok |-> FALSE, pending |-> TRUE]

Init ==
    /\ userprofile = <<>>
    /\ chatmessage = <<>>
    /\ rewardledger = <<>>
    /\ premiumpass = <<>>
    /\ vaultdocument = <<>>
    /\ files = {}
    /\ now = 0
    /\ pc = [w \in Workers |-> "idle"]
    /\ req = [w \in Workers |-> NoRequest]
    /\ profile = [w \in Workers |-> None]
    /\ resp = [w \in Workers |-> NoResponse]
    /\ nreq = 0
    /\ credited = [u \in Users |-> 0]
    /\ spent = [u \in Users |-> 0]
    /\ rewardWrites = [u \in Users |-> 0]
    /\ text = <<>>
    /\ intent = "none"
    /\ inp = None
    /\ out = None

-----------------------------------------------------------------------------
(* Request dispatch: the framework hands a parsed request to a free worker *)

\* the worker is free and the model has requests left to serve
Free(w) ==
    /\ pc[w] \in {"idle", "done"}
    /\ nreq < MaxRequests

Accept(w, r) ==
    /\ nreq' = nreq + 1
    /\ pc' = [pc EXCEPT ![w] = "start"]
    /\ req' = [req EXCEPT ![w] = r]
    /\ resp' = [resp EXCEPT ![w] = NoResponse]
    /\ UNCHANGED <<store, now, profile, history, pure>>

\* the handler returns `r`
Return(w, r) ==
    /\ pc' = [pc EXCEPT ![w] = "done"]
    /\ resp' = [resp EXCEPT ![w] = r]
    /\ profile' = [profile EXCEPT ![w] = None]
    /\ UNCHANGED <<req, nreq>>

Goto(w, label, coins_read) ==
    /\ pc' = [pc EXCEPT ![w] = label]
    /\ profile' = [profile EXCEPT ![w] = coins_read]
    /\ UNCHANGED <<req, resp, nreq>>

init_user(w) ==
    \E u \in Users :
        /\ Free(w)
        /\ Accept(w, [kind |-> "init", user_id |-> u])

get_profile(w) ==
    \E u \in Users :
        /\ Free(w)
        /\ Accept(w, [kind |-> "profile", user_id |-> u])

get_history(w) ==
    \E u \in Users :
        /\ Free(w)
        /\ Accept(w, [kind |-> "history", user_id |-> u])

chat(w) ==
    \E u \in Users, c \in ChatInputs :
        /\ Free(w)
        /\ Accept(w, [kind |-> "chat", user_id |-> u, message |-> c.message,
                      locale |-> c.locale])

budget_calc_route(w) ==
    \E u \in Users, i \in BudgetSample :
        /\ Free(w)
        /\ Accept(w, [kind |-> "budget", user_id |-> u,
                      input |-> [days |-> i.days, travelers |-> i.travelers,
                                 destination_type |-> i.destination_type,
                                 accommodation |-> i.accommodation,
                                 daily_style |-> i.daily_style]])

coins(w) ==
    \E u \in Users :
        /\ Free(w)
        /\ Accept(w, [kind |-> "coins", user_id |-> u])

reward(w) ==
    \E u \in Users, c \in RewardAmounts :
        /\ Free(w)
        /\ Accept(w, [kind |-> "reward", user_id |-> u, action |-> "ad", coins |-> c])

redeem(w) ==
    \E u \in Users, f \in Features, d \in RedeemDurations :
        /\ Free(w)
        /\ Accept(w, [kind |-> "redeem", user_id |-> u, feature |-> f, duration |-> d])

passes(w) ==
    \E u \in Users :
        /\ Free(w)
        /\ Accept(w, [kind |-> "passes", user_id |-> u])

upload_image(w) ==
    \E u \in Users, f \in FileNames, c \in Payloads :
        /\ Free(w)
        /\ Accept(w, [kind |-> "image", user_id |-> u, filename |-> f,
                      content_type |-> "image/png", content |-> c])

upload_voice(w) ==
    \E u \in Users, c \in Payloads :
        /\ Free(w)
        /\ Accept(w, [kind |-> "voice", user_id |-> u, filename |-> <<"m","e","m","o",".","o","g","g">>,
                      content |-> c])

-----------------------------------------------------------------------------
(* ensure_user and what each handler does with the profile it returns *)

EnsureKinds == {"init", "profile", "coins", "chat", "reward", "redeem", "image", "voice"}

\* the handler's code from the return of ensure_user to its next store call
AfterEnsure(w, doc) ==
    LET r == req[w]
    IN  CASE r.kind = "init" ->
               Return(w, [ok |-> TRUE, user_id |-> doc.user_id, coins |-> doc.coins])
          [] r.kind = "profile" ->
               Return(w, [ok |-> TRUE, user_id |-> doc.user_id, coins |-> doc.coins,
                          language |-> doc.language])
          [] r.kind = "coins" ->
               Return(w, [ok |-> TRUE, coins |-> doc.coins])
          [] r.kind = "chat" -> Goto(w, "chat_log", None)
          [] r.kind = "image" -> Goto(w, "image_save", None)
          [] r.kind = "voice" -> Goto(w, "voice_log", None)
          [] r.kind = "reward" -> Goto(w, "reward_first", doc.coins)
          [] r.kind = "redeem" ->
               IF doc.coins < costs(r.duration)
               THEN Return(w, [ok |-> FALSE, error |-> "Not enough coins"])
               ELSE Goto(w, "redeem_update", doc.coins)

\* line 325: an unknown duration raises KeyError before anything is read
redeem_keyerror(w) ==
    /\ pc[w] = "start"
    /\ req[w].kind = "redeem"
    /\ req[w].duration \notin Durations
    /\ Return(w, [ok |-> FALSE, error |-> "KeyError"])
    /\ UNCHANGED <<store, now, history, pure>>

\* line 38: existing = find_one(...); lines 39-40: if existing: return existing
ensure_user_find(w) ==
    /\ pc[w] = "start"
    /\ req[w].kind \in EnsureKinds
    /\ req[w].kind = "redeem" => req[w].duration \in Durations
    /\ LET existing == find_one(userprofile, req[w].user_id)
       IN  IF ensure_user_hit(existing)
           THEN AfterEnsure(w, existing)
           ELSE Goto(w, "ensure_create", None)
    /\ UNCHANGED <<store, now, history, pure>>

\* lines 41-42: create_document(COLLECTION_USER, UserProfile(coins=WELCOME_COINS))
ensure_user_create(w) ==
    /\ pc[w] = "ensure_create"
    /\ LET u == req[w].user_id
       IN  /\ userprofile' = create_document(userprofile, UserProfile(u, WELCOME_COINS))
           /\ credited' = IF find_one(userprofile, u) = None
                          THEN [credited EXCEPT ![u] = WELCOME_COINS]
                          ELSE credited
    /\ Goto(w, "ensure_refind", None)
    /\ UNCHANGED <<chatmessage, rewardledger, premiumpass, vaultdocument, files,
                   now, spent, rewardWrites, pure>>

\* line 43: return find_one(...)
ensure_user_refind(w) ==
    /\ pc[w] = "ensure_refind"
    /\ AfterEnsure(w, find_one(userprofile, req[w].user_id))
    /\ UNCHANGED <<store, now, history, pure>>

-----------------------------------------------------------------------------
(* Handlers without ensure_user: they run in one step once accepted *)

\* get_documents(COLLECTION_CHAT, {"user_id": user_id}, limit=100)
get_history_run(w) ==
    /\ pc[w] = "start"
    /\ req[w].kind = "history"
    /\ Return(w, [ok |-> TRUE,
                  messages |-> get_documents(chatmessage, req[w].user_id, HISTORY_LIMIT)])
    /\ UNCHANGED <<store, now, history, pure>>

\* get_documents(COLLECTION_PASS, {"user_id": user_id})
passes_run(w) ==
    /\ pc[w] = "start"
    /\ req[w].kind = "passes"
    /\ Return(w, [ok |-> TRUE,
                  passes |-> get_documents(premiumpass, req[w].user_id, Len(premiumpass))])
    /\ UNCHANGED <<store, now, history, pure>>

\* budget_calc reads inp.user_id nowhere
budget_calc_run(w) ==
    /\ pc[w] = "start"
    /\ req[w].kind = "budget"
    /\ Return(w, budget_calc(req[w].input))
    /\ UNCHANGED <<store, now, history, pure>>

-----------------------------------------------------------------------------
(* chat, upload_image, upload_voice after ensure_user *)

\* lines 236-239
chat_log(w) ==
    /\ pc[w] = "chat_log"
    /\ LET r == req[w]
           response == ai_reply(r.message, r.locale)
       IN  /\ chatmessage' =
                 create_document(
                     create_document(chatmessage, ChatMessage(r.user_id, "user", r.message)),
                     ChatMessage(r.user_id, "assistant", response.reply))
           /\ Return(w, response)
    /\ UNCHANGED <<userprofile, rewardledger, premiumpass, vaultdocument, files,
                   now, history, pure>>

\* open(path, "wb").write(content): the file at `path` is replaced
write_file(path, content) ==
    {f \in files : f.path # path} \cup {[path |-> path, content |-> content]}

\* lines 349-368
image_save(w) ==
    /\ pc[w] = "image_save"
    /\ LET r == req[w]
           path == [folder |-> "/tmp/travel_vault", timestamp |-> now, name |-> r.filename]
       IN  /\ files' = write_file(path, r.content)
           /\ vaultdocument' =
                 create_document(vaultdocument,
                     VaultDocument(r.user_id, r.filename, r.content_type,
                                   Len(r.content), path))
           /\ Return(w, [ok |-> TRUE,
                         message |-> IF looks_like_document(r.filename)
                                     THEN "travel_document_note"
                                     ELSE "image_saved_note"])
    /\ UNCHANGED <<userprofile, chatmessage, rewardledger, premiumpass,
                   now, history, pure>>

\* lines 375-386
voice_log(w) ==
    /\ pc[w] = "voice_log"
    /\ LET r == req[w]
           path == [folder |-> "/tmp/travel_voice", timestamp |-> now, name |-> r.filename]
           response == ai_reply(VOICE_TRANSCRIPT, <<"e","n">>)
       IN  /\ files' = write_file(path, r.content)
           /\ chatmessage' =
                 create_document(
                     create_document(chatmessage,
                                     ChatMessage(r.user_id, "user", VOICE_TRANSCRIPT)),
                     ChatMessage(r.user_id, "assistant", response.reply))
           /\ Return(w, [ok |-> TRUE, transcript |-> VOICE_TRANSCRIPT,
                         reply |-> response.reply])
    /\ UNCHANGED <<userprofile, rewardledger, premiumpass, vaultdocument,
                   now, history, pure>>

-----------------------------------------------------------------------------
(* reward: two separate writes, in the order of reward_order *)

RewardWrite(w, which) ==
    LET r == req[w]
        u == r.user_id
    IN  IF which = "balance"
        THEN /\ userprofile' = update_one(userprofile, u, new_balance(profile[w], r.coins))
             /\ credited' = [credited EXCEPT ![u] = @ + Max(0, r.coins)]
             /\ rewardWrites' = [rewardWrites EXCEPT ![u] = @ + 1]
             /\ UNCHANGED rewardledger
        ELSE /\ rewardledger' = create_document(rewardledger, RewardLedger(r))
             /\ UNCHANGED <<userprofile, credited, rewardWrites>>

\* line 317 (update_one)
reward_first(w) ==
    /\ pc[w] = "reward_first"
    /\ RewardWrite(w, reward_order[1])
    /\ Goto(w, "reward_second", profile[w])
    /\ UNCHANGED <<chatmessage, premiumpass, vaultdocument, files, now, spent, pure>>

\* lines 318-319 (create_document, return)
reward_second(w) ==
    /\ pc[w] = "reward_second"
    /\ RewardWrite(w, reward_order[2])
    /\ Return(w, [ok |-> TRUE, coins |-> new_balance(profile[w], req[w].coins)])
    /\ UNCHANGED <<chatmessage, premiumpass, vaultdocument, files, now, spent, pure>>

-----------------------------------------------------------------------------
(* redeem: the debit of the balance read earlier, then the pass *)

\* line 331
redeem_update(w) ==
    /\ pc[w] = "redeem_update"
    /\ userprofile' = update_one(userprofile, req[w].user_id,
                                 debited_balance(profile[w],
                                                 find_one(userprofile, req[w].user_id).coins,
                                                 costs(req[w].duration)))
    /\ Goto(w, "redeem_pass", profile[w])
    /\ UNCHANGED <<chatmessage, rewardledger, premiumpass, vaultdocument, files,
                   now, history, pure>>

\* lines 332-334
redeem_pass(w) ==
    /\ pc[w] = "redeem_pass"
    /\ LET r == req[w]
           expires_at == now + timedelta(days(r.duration))
       IN  /\ premiumpass' = create_document(premiumpass,
                                 PremiumPass(r.user_id, r.feature, expires_at))
           /\ spent' = [spent EXCEPT ![r.user_id] = @ + costs(r.duration)]
           /\ Return(w, [ok |-> TRUE, feature |-> r.feature, expires_at |-> expires_at])
    /\ UNCHANGED <<userprofile, chatmessage, rewardledger, vaultdocument, files,
                   now, credited, rewardWrites, pure>>

-----------------------------------------------------------------------------
(* Environment *)

\* the worker dies in the middle of a handler; nothing is rolled back
Crash(w) ==
    /\ pc[w] \notin {"idle", "done"}
    /\ pc' = [pc EXCEPT ![w] = "idle"]
    /\ req' = [req EXCEPT ![w] = NoRequest]
    /\ profile' = [profile EXCEPT ![w] = None]
    /\ resp' = [resp EXCEPT ![w] = NoResponse]
    /\ UNCHANGED <<store, now, nreq, history, pure>>

\* time passes
Tick ==
    /\ now < MaxTime
    /\ now' = now + 1
    /\ UNCHANGED <<store, workers, history, pure>>

\* the routes of the coin economy: the only ones that read or write a balance
Ledger(w) ==
    \/ init_user(w)
    \/ get_profile(w)
    \/ coins(w)
    \/ reward(w)
    \/ redeem(w)
    \/ redeem_keyerror(w)
    \/ ensure_user_find(w)
    \/ ensure_user_create(w)
    \/ ensure_user_refind(w)
    \/ reward_first(w)
    \/ reward_second(w)
    \/ redeem_update(w)
    \/ redeem_pass(w)

\* the remaining routes that name a user
Other(w) ==
    \/ get_history(w)
    \/ chat(w)
    \/ budget_calc_route(w)
    \/ passes(w)
    \/ upload_image(w)
    \/ upload_voice(w)
    \/ get_history_run(w)
    \/ passes_run(w)
    \/ budget_calc_run(w)
    \/ chat_log(w)
    \/ image_save(w)
    \/ voice_log(w)

\* concurrent workers on the coin economy, with crashes
Next ==
    \/ \E w \in Workers : Ledger(w)
    \/ \E w \in Workers : Crash(w)

Spec == Init /\ [][Next]_vars

\* every route, one request at a time, each run to its end, while time passes
NextSeq ==
    \/ Tick
    \/ Ledger("w1")
    \/ Other("w1")

SpecSeq == Init /\ [][NextSeq]_vars

-----------------------------------------------------------------------------
(* The pure functions applied to enumerated inputs *)

Phrases ==
    { <<"d","e","s","t","i","n","a","t","i","o","n">>, <<"B","u","d","g","e","t">>, <<"c","h","e","a","p">>, <<"l","o","w"," ","m","o","n","e","y">>, <<"s","a","f","e">>, <<"g","i","r","l">>,
      <<"u","n","s","a","f","e">>, <<"f","o","o","d">>, <<"h","i">> }

\* the user types one more phrase
Type ==
    \E ph \in Phrases :
        /\ Len(text) + Len(ph) + 1 <= MaxTextLen
        /\ text' = IF text = <<>> THEN ph ELSE text \o <<" ">> \o ph
        /\ intent' = "none"
        /\ UNCHANGED <<store, now, workers, history, inp, out>>

Classify ==
    /\ intent = "none"
    /\ intent' = detect_intent(text)
    /\ UNCHANGED <<store, now, workers, history, text, inp, out>>

NextIntent == Type \/ Classify

SpecIntent == Init /\ [][NextIntent]_vars

BudgetInputs ==
    [ days : 0..MaxDays,
      travelers : 1..MaxTravelers,
      destination_type : {"city", "beach", "mountains", "rural", "island"},
      accommodation : {"budget", "mid", "premium", "hostel"},
      daily_style : DailyStyles \cup {"luxury"} ]

Estimate ==
    \E i \in BudgetInputs :
        /\ inp = None
        /\ inp' = [days |-> i.days, travelers |-> i.travelers,
                   destination_type |-> i.destination_type,
                   accommodation |-> i.accommodation, daily_style |-> i.daily_style]
        /\ out' = budget_calc(i)
        /\ UNCHANGED <<store, now, workers, history, text, intent>>

NextBudget == Estimate

SpecBudget == Init /\ [][NextBudget]_vars

-----------------------------------------------------------------------------
(* Vocabulary of the properties *)

HasProfileIn(coll, u) == find_one(coll, u) # None
BalanceIn(coll, u) == find_one(coll, u).coins
HasProfile(u) == HasProfileIn(userprofile, u)
Balance(u) == BalanceIn(userprofile, u)
ProfilesOf(u) == SelectSeq(userprofile, LAMBDA d : d.user_id = u)
AuditEntriesOf(u) == SelectSeq(rewardledger, LAMBDA d : d.user_id = u)

\* the tables as the specification states them
ClaimPrice(d) == CASE d = "1d" -> 10 [] d = "7d" -> 50 [] d = "30d" -> 150
ClaimDays(d) == CASE d = "1d" -> 1 [] d = "7d" -> 7 [] d = "30d" -> 30
ClaimFood(s) == CASE s = "thrifty" -> 18 [] s = "standard" -> 35 [] s = "comfort" -> 60
ClaimStay(a) == CASE a = "budget" -> 15 [] a = "mid" -> 35 [] a = "premium" -> 80
ClaimMultiplier(t) ==
    CASE t = "city" -> 10 [] t = "beach" -> 11 [] t = "mountains" -> 9 [] t = "rural" -> 8
BudgetKeywords == {<<"b","u","d","g","e","t">>, <<"l","o","w"," ","m","o","n","e","y">>, <<"c","h","e","a","p">>}
ReadRoutes == {"init", "profile", "coins"}

-----------------------------------------------------------------------------
(* C1: in every reachable state, under every interleaving of init, profile, *)
(* coins, reward and redeem requests, every stored coin balance is >= 0.    *)
C1_BalanceNeverNegative ==
    \A i \in 1..Len(userprofile) : userprofile[i].coins >= 0

\* a negative reward and a successful redeem both ran on a user left with 0 coins
C1_Witness ==
    \E a \in Workers, b \in Workers :
        /\ pc[a] = "done" /\ req[a].kind = "reward" /\ req[a].coins < 0
        /\ pc[b] = "done" /\ req[b].kind = "redeem" /\ resp[b].ok
        /\ req[a].user_id = req[b].user_id
        /\ Balance(req[a].user_id) = 0

(* C2: when the profile exists with balance < price of the requested class, *)
(* redeem returns the failure result ok=false and changes nothing: no       *)
(* balance change, no pass, no ledger entry.                                *)
C2_InsufficientFundsNoChange ==
    [][\A w \in Workers :
        ( /\ pc[w] = "start"
          /\ req[w].kind = "redeem"
          /\ req[w].duration \in Durations
          /\ HasProfile(req[w].user_id)
          /\ Balance(req[w].user_id) < ClaimPrice(req[w].duration)
          /\ pc'[w] \notin {"start", "idle"} )
        => ( /\ pc'[w] = "done"
             /\ resp'[w].ok = FALSE
             /\ resp'[w].error = "Not enough coins"
             /\ store' = store )]_vars

\* a second 1-day redeem failed on the balance of 0 the first one left
C2_Witness ==
    \E w \in Workers :
        /\ pc[w] = "done" /\ req[w].kind = "redeem" /\ req[w].duration = "1d"
        /\ resp[w].ok = FALSE
        /\ Balance(req[w].user_id) = 0
        /\ spent[req[w].user_id] = 10
        /\ Len(premiumpass) = 1

(* C3: with balance >= price, a redeem that runs without interleaving       *)
(* lowers the balance by exactly the price (10, 50, 150) and creates        *)
(* exactly one pass for that user and feature, expiring at the time of the  *)
(* call plus 1, 7 or 30 days.                                               *)
C3_RedeemDebitsAndIssuesPass ==
    [][LET w == "w1"
           r == req[w]
       IN  /\ ( /\ pc[w] = "start" /\ r.kind = "redeem" /\ r.duration \in Durations
                /\ HasProfile(r.user_id)
                /\ Balance(r.user_id) >= ClaimPrice(r.duration)
                /\ pc'[w] # "start" )
              => ( /\ pc'[w] = "redeem_update"
                   /\ profile'[w] = Balance(r.user_id)
                   /\ store' = store )
           /\ ( pc[w] = "redeem_update" /\ pc'[w] # "redeem_update" )
              => ( /\ pc'[w] = "redeem_pass"
                   /\ BalanceIn(userprofile', r.user_id)
                        = Balance(r.user_id) - ClaimPrice(r.duration)
                   /\ premiumpass' = premiumpass )
           /\ ( pc[w] = "redeem_pass" /\ pc'[w] # "redeem_pass" )
              => ( /\ pc'[w] = "done"
                   /\ resp'[w].ok
                   /\ premiumpass' =
                        Append(premiumpass,
                               [user_id |-> r.user_id, feature |-> r.feature,
                                expires_at |-> now + ClaimDays(r.duration) * TicksPerDay])
                   /\ userprofile' = userprofile
                   /\ BalanceIn(userprofile', r.user_id)
                        = profile[w] - ClaimPrice(r.duration) )]_vars

\* balance 20, class short, called at time 1: balance 10 and a 1-day pass
C3_Witness ==
    /\ pc["w1"] = "done" /\ req["w1"].kind = "redeem" /\ req["w1"].duration = "1d"
    /\ resp["w1"].ok
    /\ credited[req["w1"].user_id] = 20
    /\ Balance(req["w1"].user_id) = 10
    /\ Len(premiumpass) = 1
    /\ premiumpass[1].user_id = req["w1"].user_id
    /\ premiumpass[1].expires_at = 1 + TicksPerDay

(* C4: for every integer amount, a reward that runs without interleaving    *)
(* sets the balance to old balance + max(0, amount), never lowers it, and   *)
(* appends exactly one audit entry for that user.                           *)
C4_RewardCreditsClampedAmount ==
    [][LET w == "w1"
           r == req[w]
       IN  /\ ( pc[w] = "reward_first" /\ pc'[w] # "reward_first" )
              => ( /\ pc'[w] = "reward_second"
                   /\ profile[w] = Balance(r.user_id)
                   /\ BalanceIn(userprofile', r.user_id)
                        = Balance(r.user_id) + (IF r.coins > 0 THEN r.coins ELSE 0)
                   /\ BalanceIn(userprofile', r.user_id) >= Balance(r.user_id)
                   /\ rewardledger' = rewardledger )
           /\ ( pc[w] = "reward_second" /\ pc'[w] # "reward_second" )
              => ( /\ pc'[w] = "done"
                   /\ rewardledger' =
                        Append(rewardledger,
                               [user_id |-> r.user_id, action |-> r.action,
                                coins |-> r.coins])
                   /\ userprofile' = userprofile
                   /\ resp'[w].coins = Balance(r.user_id) )]_vars

\* a reward of -20 finished: the welcome balance is intact and audited once
C4_Witness ==
    /\ pc["w1"] = "done" /\ req["w1"].kind = "reward" /\ req["w1"].coins = -20
    /\ Balance(req["w1"].user_id) = 10
    /\ resp["w1"].coins = 10
    /\ Len(rewardledger) = 1
    /\ rewardledger[1].coins = -20
    /\ rewardWrites[req["w1"].user_id] = 1

(* C5: after any request that names a user completes (init, profile, coins, *)
(* chat, budget, history, passes, reward, redeem, image, voice), a profile  *)
(* of that user exists, and a profile so created starts with 10 coins.      *)
C5_ProfileExistsAfterAnyRequest ==
    /\ \A w \in Workers :
          ( /\ pc[w] = "done"
            /\ ~(req[w].kind = "redeem" /\ req[w].duration \notin Durations) )
          => HasProfile(req[w].user_id)
    /\ \A u \in Users :
          ( /\ HasProfile(u)
            /\ rewardWrites[u] = 0 /\ spent[u] = 0
            /\ \A w \in Workers : pc[w] # "redeem_pass" )
          => Balance(u) = 10

(* C6: ensure_user is idempotent: with no reward or redeem in between, a    *)
(* second ensure_user call for the same user creates no further profile     *)
(* and returns the same balance as the first (10 for a user first seen by   *)
(* the first call).                                                         *)
C6_EnsureUserIdempotent ==
    [][LET w == "w1"
           r == req[w]
       IN  \* a call that finds the profile creates nothing and returns what is stored
           /\ ( /\ pc[w] = "start" /\ r.kind \in EnsureKinds
                /\ r.kind = "redeem" => r.duration \in Durations
                /\ HasProfile(r.user_id)
                /\ pc'[w] # "start" )
              => ( /\ userprofile' = userprofile
                   /\ pc'[w] # "ensure_create"
                   /\ r.kind \in ReadRoutes =>
                        /\ pc'[w] = "done"
                        /\ resp'[w].coins = Balance(r.user_id) )
           \* the call that first sees the user creates one profile and returns 10
           /\ ( pc[w] = "ensure_refind" /\ pc'[w] # "ensure_refind" )
              => ( /\ userprofile' = userprofile
                   /\ Len(ProfilesOf(r.user_id)) = 1
                   /\ r.kind \in ReadRoutes => resp'[w].coins = 10 )
           \* between two calls only reward and redeem change a stored balance
           /\ ( userprofile' # userprofile )
              => \/ pc[w] \in {"reward_first", "redeem_update"}
                 \/ /\ pc[w] = "ensure_create"
                    /\ ~HasProfile(r.user_id)
                    /\ SubSeq(userprofile', 1, Len(userprofile)) = userprofile ]_vars

\* chat saw the user first; the init that followed returned the same 10 coins
C6_Witness ==
    /\ pc["w1"] = "done" /\ req["w1"].kind = "init"
    /\ nreq = 2
    /\ Len(chatmessage) = 2
    /\ chatmessage[1].user_id = req["w1"].user_id
    /\ Len(userprofile) = 1
    /\ resp["w1"].coins = 10

(* C7 as stated: the budget rule precedes the destination rule, so every    *)
(* message with a budget keyword and "destination" is budget_low.           *)
C7_BudgetBeforeDestination ==
    ( /\ intent # "none"
      /\ AnyIn(BudgetKeywords, lower(text))
      /\ Contains(lower(text), <<"d","e","s","t","i","n","a","t","i","o","n">>) )
    => intent = "budget_low"

(* C7 amended: the destination rule precedes the budget rule, so every      *)
(* message with a budget keyword and "destination" is where_travel.         *)
C7_DestinationBeforeBudget ==
    ( /\ intent # "none"
      /\ AnyIn(BudgetKeywords, lower(text))
      /\ Contains(lower(text), <<"d","e","s","t","i","n","a","t","i","o","n">>) )
    => intent = "where_travel"

C7_Witness ==
    /\ text = <<"c","h","e","a","p"," ","B","u","d","g","e","t"," ","d","e","s","t","i","n","a","t","i","o","n">>
    /\ intent = "where_travel"

(* C8: for days >= 1, travelers >= 1 and every valid style, destination     *)
(* type and tier, food + transport + misc + stay = total_estimate, where    *)
(* stay = rate x days is not multiplied by the traveler count while food,   *)
(* transport and misc are.                                                  *)
C8_BreakdownSumsToTotal ==
    ( /\ inp # None
      /\ inp.days >= 1 /\ inp.travelers >= 1
      /\ inp.daily_style \in {"thrifty", "standard", "comfort"}
      /\ inp.destination_type \in {"city", "beach", "mountains", "rural"}
      /\ inp.accommodation \in {"budget", "mid", "premium"} )
    => LET b == out.breakdown
           m == ClaimMultiplier(inp.destination_type)
           n == inp.travelers * inp.days
       IN  /\ out.ok
           /\ b.food + b.transport + b.misc + b.stay = out.total_estimate
           /\ b.stay = ClaimStay(inp.accommodation) * inp.days * 1000
           /\ b.food = ClaimFood(inp.daily_style) * m * n * 100
           /\ b.transport = 8 * m * n * 100
           /\ b.misc = 5 * n * 1000

\* thrifty beach trip, budget room, 2 days, 2 travelers: 164.40 in all, 30.00 of it the room
C8_Witness ==
    /\ inp # None
    /\ inp.days = 2 /\ inp.travelers = 2
    /\ inp.daily_style = "thrifty" /\ inp.destination_type = "beach"
    /\ inp.accommodation = "budget"
    /\ out.total_estimate = 164400
    /\ out.breakdown.stay = 30000

(* C9: two interleaved redeems of one user can both read a sufficient       *)
(* balance before either writes; each then debits the balance it read and   *)
(* issues a pass, so the passes issued can cost more than the coins the     *)
(* user was ever credited.                                                  *)
C9_RedeemActsOnItsOwnRead ==
    [][\A w \in Workers :
        LET r == req[w]
        IN  /\ ( pc[w] # "redeem_update" /\ pc'[w] = "redeem_update" )
               => /\ profile'[w] >= ClaimPrice(r.duration)
                  /\ profile'[w] = Balance(r.user_id)
            /\ ( pc[w] = "redeem_update" /\ pc'[w] = "redeem_pass" )
               => BalanceIn(userprofile', r.user_id) = profile[w] - ClaimPrice(r.duration)
            /\ ( pc[w] = "redeem_pass" /\ pc'[w] = "done" )
               => /\ Len(premiumpass') = Len(premiumpass) + 1
                  /\ spent'[r.user_id] = spent[r.user_id] + ClaimPrice(r.duration) ]_vars

\* both workers redeemed for the same user, whose passes cost more than all credits
C9_Witness ==
    \E u \in Users :
        /\ \A w \in Workers :
              /\ pc[w] = "done" /\ req[w].kind = "redeem" /\ req[w].user_id = u
              /\ resp[w].ok
        /\ Len(premiumpass) = 2
        /\ spent[u] > credited[u]

(* C10: reward writes the balance before the audit entry: in every          *)
(* reachable state, also after a crash between the two writes, each audit   *)
(* entry belongs to a reward whose balance write has been applied.          *)
C10_AuditOnlyAfterBalanceWrite ==
    \A u \in Users : Len(AuditEntriesOf(u)) <= rewardWrites[u]

\* a crash after the balance write: 140 coins credited, no audit entry, nobody at work
C10_Witness ==
    \E u \in Users :
        /\ rewardWrites[u] = 1
        /\ HasProfile(u) /\ Balance(u) = 150
        /\ rewardledger = <<>>
        /\ \A w \in Workers : pc[w] = "idle"

====
